---- MODULE Spec2Model ----
(***************************************************************************)
(* Model of src/inventario.txt.py: the validated Producto record, the      *)
(* Inventario manager (_productos, an insertion-ordered dict, and          *)
(* _idx_nombre, the index from normalized name to the set of ids), its     *)
(* JSON persistence and the loop of menu(), whose position is pc; and of   *)
(* src/biblioteca.txt.py: the five fields of Biblioteca.                   *)
(*                                                                         *)
(* A str is a sequence of one-character strings.  A float is a record      *)
(* [nan, v]: either the number v or NaN, whose comparisons are all false.  *)
(* The dict _productos is the sequence of its values in insertion order.   *)
(* A raised exception is the field err of an operation's result.           *)
(***************************************************************************)
EXTENDS Integers, Sequences, FiniteSets

VARIABLES productos, idx_nombre, archivo, res, pc,
          catalogo, libros_disponibles, usuarios, ids_usuarios, prestamos

vars_biblioteca == <<catalogo, libros_disponibles, usuarios, ids_usuarios, prestamos>>

vars == <<productos, idx_nombre, archivo, res, pc, vars_biblioteca>>

----------------------------------------------------------------------------
(* Bounds of the model *)

MaxId == 2
MaxCant == 1
MaxPrecio == 0

Ids == 1..MaxId

\* Biblioteca: the isbns are 1..MaxIsbn, the user ids 1..MaxUsuario
MaxIsbn == 2
MaxUsuario == 2

Isbns == 1..MaxIsbn
IdsUsuario == 1..MaxUsuario

\* float values, counted in hundredths: F(250) is 2.50
F(n) == [nan |-> FALSE, v |-> n]
NaN == [nan |-> TRUE, v |-> 0]
FloatLt(a, b) == ~a.nan /\ ~b.nan /\ a.v < b.v
FloatGe(a, b) == ~a.nan /\ ~b.nan /\ a.v >= b.v

\* str values: "", " ", " A", "b "
Espacios == {" "}
NombresEntrada == {<< >>, <<" ">>, <<" ", "A">>, <<"b", " ">>}
CantidadesEntrada == (-1)..MaxCant
PreciosEntrada == {F(n) : n \in (-1)..MaxPrecio} \cup {NaN}
DeltasEntrada == (-(MaxCant + 1))..MaxCant

----------------------------------------------------------------------------
(* str.strip, str.casefold and _norm_nombre *)

RECURSIVE lstrip(_)
lstrip(s) == IF s # << >> /\ Head(s) \in Espacios THEN lstrip(Tail(s)) ELSE s

RECURSIVE rstrip(_)
rstrip(s) ==
    IF s # << >> /\ s[Len(s)] \in Espacios
    THEN rstrip(SubSeq(s, 1, Len(s) - 1))
    ELSE s

strip(s) == rstrip(lstrip(s))

casefold_char(c) == IF c = "A" THEN "a" ELSE IF c = "B" THEN "b" ELSE c

casefold(s) == [i \in 1..Len(s) |-> casefold_char(s[i])]

_norm_nombre(nombre) == casefold(strip(nombre))

NombresVacios == {n \in NombresEntrada : n = << >> \/ strip(n) = << >>}

----------------------------------------------------------------------------
(* Producto: the validating setters and the constructor *)

Ok(v) == [err |-> "", val |-> v]
Raise(e) == [err |-> e, val |-> 0]

precio_setter(value) ==
    IF FloatLt(value, F(0)) THEN Raise("ValueError") ELSE Ok(value)

cantidad_setter(value) ==
    IF value < 0 THEN Raise("ValueError") ELSE Ok(value)

nombre_setter(value) ==
    IF value = << >> \/ strip(value) = << >>
    THEN Raise("ValueError")
    ELSE Ok(strip(value))

\* __post_init__: every field is assigned again through its setter
post_init(p) ==
    LET n == nombre_setter(p.nombre)
        c == cantidad_setter(p.cantidad)
        f == precio_setter(p.precio)
    IN  IF n.err # "" THEN Raise(n.err)
        ELSE IF c.err # "" THEN Raise(c.err)
        ELSE IF f.err # "" THEN Raise(f.err)
        ELSE Ok([id |-> p.id, nombre |-> n.val, cantidad |-> c.val, precio |-> f.val])

\* the generated __init__ assigns id, nombre, cantidad, precio in this order
\* (the three last through the setters), then calls __post_init__
Producto(id, nombre, cantidad, precio) ==
    LET n == nombre_setter(nombre)
        c == cantidad_setter(cantidad)
        f == precio_setter(precio)
    IN  IF n.err # "" THEN Raise(n.err)
        ELSE IF c.err # "" THEN Raise(c.err)
        ELSE IF f.err # "" THEN Raise(f.err)
        ELSE post_init([id |-> id, nombre |-> n.val, cantidad |-> c.val, precio |-> f.val])

\* valor_total returning the unit price
valor_total_unitario(p) ==
    p.precio

valor_total(p) ==
    IF p.precio.nan THEN NaN ELSE F(p.cantidad * p.precio.v)

\* to_dict leaving out the price
to_dict_sin_precio(p) ==
    [id |-> p.id, nombre |-> p.nombre, cantidad |-> p.cantidad]

to_dict(p) ==
    [id |-> p.id, nombre |-> p.nombre, cantidad |-> p.cantidad, precio |-> p.precio]

from_dict(data) ==
    IF "id" \notin DOMAIN data THEN Raise("KeyError")
    ELSE IF "nombre" \notin DOMAIN data THEN Raise("KeyError")
    ELSE IF "cantidad" \notin DOMAIN data THEN Raise("KeyError")
    ELSE IF "precio" \notin DOMAIN data THEN Raise("KeyError")
    ELSE Producto(data.id, data.nombre, data.cantidad, data.precio)

----------------------------------------------------------------------------
(* dict operations on _productos (insertion-ordered, keyed by id) *)

IdsDe(ps) == {ps[i].id : i \in 1..Len(ps)}

Pos(ps, id) == CHOOSE i \in 1..Len(ps) : ps[i].id = id

Obtener(ps, id) == ps[Pos(ps, id)]

\* d[k] = v: a new key goes last, an existing key keeps its place
Poner(ps, p) ==
    IF p.id \in IdsDe(ps)
    THEN [ps EXCEPT ![Pos(ps, p.id)] = p]
    ELSE Append(ps, p)

\* d.pop(k)
Quitar(ps, id) ==
    LET k == Pos(ps, id)
    IN  SubSeq(ps, 1, k - 1) \o SubSeq(ps, k + 1, Len(ps))

----------------------------------------------------------------------------
(* Inventario: the index helpers *)

IdxVacio == [k \in {} |-> {}]

\* self._idx_nombre.setdefault(key, set()).add(p.id)
_indexar(idx, p) ==
    LET key == _norm_nombre(p.nombre)
    IN  [k \in DOMAIN idx \cup {key} |->
            IF k = key
            THEN (IF key \in DOMAIN idx THEN idx[key] ELSE {}) \cup {p.id}
            ELSE idx[k]]

\* _desindexar without the pop of a bucket that became empty
_desindexar_sin_podar(idx, p) ==
    LET key == _norm_nombre(p.nombre)
    IN  IF key \in DOMAIN idx /\ idx[key] # {}
        THEN [idx EXCEPT ![key] = @ \ {p.id}]
        ELSE idx

\* ids = get(key); if ids: discard(p.id); if not ids: pop(key)
_desindexar(idx, p) ==
    LET key == _norm_nombre(p.nombre)
    IN  IF key \in DOMAIN idx /\ idx[key] # {}
        THEN IF idx[key] \ {p.id} = {}
             THEN [k \in DOMAIN idx \ {key} |-> idx[k]]
             ELSE [idx EXCEPT ![key] = @ \ {p.id}]
        ELSE idx

----------------------------------------------------------------------------
(* Inventario: the public operations.  Each takes the manager's fields and *)
(* gives the fields after the call, the exception raised ("" when none)    *)
(* and the value returned (a sequence: << >> for None).                    *)

Resultado(ps, idx, err, ret) ==
    [productos |-> ps, idx |-> idx, err |-> err, ret |-> ret]

Inventario == Resultado(<< >>, IdxVacio, "", << >>)

\* agregar storing the product before it checks the id
agregar_reemplaza(ps, idx, p) ==
    IF p.id \in IdsDe(ps)
    THEN Resultado(Poner(ps, p), idx, "KeyError", << >>)
    ELSE Resultado(Poner(ps, p), _indexar(idx, p), "", << >>)

agregar(ps, idx, p) ==
    IF p.id \in IdsDe(ps)
    THEN Resultado(ps, idx, "KeyError", << >>)
    ELSE Resultado(Poner(ps, p), _indexar(idx, p), "", << >>)

eliminar(ps, idx, id_) ==
    IF id_ \notin IdsDe(ps)
    THEN Resultado(ps, idx, "KeyError", << >>)
    ELSE LET p == Obtener(ps, id_)
         IN  Resultado(Quitar(ps, id_), _desindexar(idx, p), "", <<p>>)

actualizar_cantidad(ps, idx, id_, nueva_cantidad) ==
    IF id_ \notin IdsDe(ps)
    THEN Resultado(ps, idx, "KeyError", << >>)
    ELSE LET c == cantidad_setter(nueva_cantidad)
         IN  IF c.err # ""
             THEN Resultado(ps, idx, c.err, << >>)
             ELSE Resultado([ps EXCEPT ![Pos(ps, id_)].cantidad = c.val], idx, "", << >>)

\* ajustar_cantidad rejecting an adjustment that leaves exactly zero
ajustar_cantidad_sin_cero(ps, idx, id_, delta) ==
    IF id_ \notin IdsDe(ps)
    THEN Resultado(ps, idx, "KeyError", << >>)
    ELSE LET nueva == Obtener(ps, id_).cantidad + delta
         IN  IF nueva <= 0
             THEN Resultado(ps, idx, "ValueError", << >>)
             ELSE Resultado([ps EXCEPT ![Pos(ps, id_)].cantidad = nueva], idx, "", << >>)

ajustar_cantidad(ps, idx, id_, delta) ==
    IF id_ \notin IdsDe(ps)
    THEN Resultado(ps, idx, "KeyError", << >>)
    ELSE LET nueva == Obtener(ps, id_).cantidad + delta
         IN  IF nueva < 0
             THEN Resultado(ps, idx, "ValueError", << >>)
             ELSE LET c == cantidad_setter(nueva)
                  IN  IF c.err # ""
                      THEN Resultado(ps, idx, c.err, << >>)
                      ELSE Resultado([ps EXCEPT ![Pos(ps, id_)].cantidad = c.val],
                                     idx, "", << >>)

actualizar_precio(ps, idx, id_, nuevo_precio) ==
    IF id_ \notin IdsDe(ps)
    THEN Resultado(ps, idx, "KeyError", << >>)
    ELSE LET f == precio_setter(nuevo_precio)
         IN  IF f.err # ""
             THEN Resultado(ps, idx, f.err, << >>)
             ELSE Resultado([ps EXCEPT ![Pos(ps, id_)].precio = f.val], idx, "", << >>)

\* _desindexar runs before the setter validates; _indexar only after it
actualizar_nombre(ps, idx, id_, nuevo_nombre) ==
    IF id_ \notin IdsDe(ps)
    THEN Resultado(ps, idx, "KeyError", << >>)
    ELSE LET p == Obtener(ps, id_)
             idx1 == _desindexar(idx, p)
             n == nombre_setter(nuevo_nombre)
         IN  IF n.err # ""
             THEN Resultado(ps, idx1, n.err, << >>)
             ELSE LET q == [p EXCEPT !.nombre = n.val]
                  IN  Resultado([ps EXCEPT ![Pos(ps, id_)] = q], _indexar(idx1, q),
                                "", << >>)

\* sum(...) over the dict's values, in insertion order, starting from int 0
RECURSIVE SumaCant(_)
SumaCant(ps) ==
    IF ps = << >> THEN 0 ELSE SumaCant(SubSeq(ps, 1, Len(ps) - 1)) + ps[Len(ps)].cantidad

FloatAdd(a, b) == IF a.nan \/ b.nan THEN NaN ELSE F(a.v + b.v)

RECURSIVE SumaValor(_)
SumaValor(ps) ==
    IF ps = << >> THEN F(0)
    ELSE FloatAdd(SumaValor(SubSeq(ps, 1, Len(ps) - 1)), valor_total(ps[Len(ps)]))

resumen(ps) == <<Len(ps), SumaCant(ps), SumaValor(ps)>>

----------------------------------------------------------------------------
(* Persistence.  A file is [existe, datos]: datos is the JSON array, a     *)
(* sequence of JSON objects (records).                                     *)

NoArchivo == [existe |-> FALSE, datos |-> << >>]
Archivo(datos) == [existe |-> TRUE, datos |-> datos]

guardar_json(ps) == Archivo([i \in 1..Len(ps) |-> to_dict(ps[i])])

\* the loop of cargar_json over data[i..]; it stops at the first record
\* from_dict rejects, with what it has stored so far
RECURSIVE CargarDesde(_, _, _, _)
CargarDesde(ps, idx, data, i) ==
    IF i > Len(data)
    THEN Resultado(ps, idx, "", <<Len(ps)>>)
    ELSE LET r == from_dict(data[i])
         IN  IF r.err # ""
             THEN Resultado(ps, idx, r.err, << >>)
             ELSE CargarDesde(Poner(ps, r.val), _indexar(idx, r.val), data, i + 1)

\* cargar_json without the two clear() calls: a merge
cargar_json_fusion(ps, idx, ruta) ==
    IF ~ruta.existe
    THEN Resultado(ps, idx, "", <<0>>)
    ELSE CargarDesde(ps, idx, ruta.datos, 1)

\* cargar_json clearing before it looks for the file
cargar_json_limpia_antes(ps, idx, ruta) ==
    IF ~ruta.existe
    THEN Resultado(<< >>, IdxVacio, "", <<0>>)
    ELSE CargarDesde(<< >>, IdxVacio, ruta.datos, 1)

cargar_json(ps, idx, ruta) ==
    IF ~ruta.existe
    THEN Resultado(ps, idx, "", <<0>>)
    ELSE CargarDesde(<< >>, IdxVacio, ruta.datos, 1)

----------------------------------------------------------------------------
(* The files inventario.json may be when the program starts: absent, or a  *)
(* JSON array written by hand or by an earlier run.                        *)

J(id, nombre, cantidad, precio) ==
    [id |-> id, nombre |-> nombre, cantidad |-> cantidad, precio |-> precio]

ArchivosIniciales ==
    { NoArchivo,
      Archivo(<<J(1, <<" ", "A">>, 1, F(0)), J(2, <<"b", " ">>, 0, NaN)>>),
      Archivo(<<J(1, <<"a">>, 1, F(0)), J(1, <<"b">>, 0, F(0))>>),
      Archivo(<<J(2, <<"a">>, 1, F(0)), [id |-> 1, nombre |-> <<"a">>, cantidad |-> 1]>>),
      Archivo(<<J(1, <<"a">>, -1, F(0)), J(2, <<"a">>, 1, F(0))>>) }

----------------------------------------------------------------------------
(* The state machine: one action per call.  res is the outcome of the last *)
(* call: the operation, the exception it raised and what it returned.      *)
(* pc is "inicio" until menu() runs, and the fields of Biblioteca are      *)
(* those of b = Biblioteca().                                              *)

\* Biblioteca(): the dicts are functions, empty at first
Biblioteca ==
    [catalogo |-> << >>, libros_disponibles |-> << >>, usuarios |-> << >>,
     ids_usuarios |-> {}, prestamos |-> << >>]

Salida(op, err, ret) == [op |-> op, err |-> err, ret |-> ret]

Aplicar(op, r) ==
    /\ productos' = r.productos
    /\ idx_nombre' = r.idx
    /\ res' = Salida(op, r.err, r.ret)
    /\ UNCHANGED <<archivo, pc, vars_biblioteca>>

Init ==
    /\ productos = Inventario.productos
    /\ idx_nombre = Inventario.idx
    /\ archivo \in ArchivosIniciales
    /\ res = Salida("Inventario", "", << >>)
    /\ pc = "inicio"
    /\ catalogo = Biblioteca.catalogo
    /\ libros_disponibles = Biblioteca.libros_disponibles
    /\ usuarios = Biblioteca.usuarios
    /\ ids_usuarios = Biblioteca.ids_usuarios
    /\ prestamos = Biblioteca.prestamos

\* inv.agregar(Producto(id, nombre, cantidad, precio)): when the constructor
\* raises, agregar is never called
AgregarDe(Entradas) ==
    \E id \in Ids, e \in Entradas :
        LET p == Producto(id, e.nombre, e.cantidad, e.precio)
        IN  IF p.err # ""
            THEN /\ res' = Salida("Producto", p.err, << >>)
                 /\ UNCHANGED <<productos, idx_nombre, archivo, pc, vars_biblioteca>>
            ELSE Aplicar("agregar", agregar(productos, idx_nombre, p.val))

Agregar ==
    AgregarDe([nombre : NombresEntrada, cantidad : CantidadesEntrada,
               precio : PreciosEntrada])

Eliminar ==
    \E id \in Ids : Aplicar("eliminar", eliminar(productos, idx_nombre, id))

ActualizarCantidad ==
    \E id \in Ids, c \in CantidadesEntrada :
        Aplicar("actualizar_cantidad", actualizar_cantidad(productos, idx_nombre, id, c))

\* the quantity is kept within MaxCant
AjustarCantidad ==
    \E id \in Ids, d \in DeltasEntrada :
        /\ id \in IdsDe(productos) => Obtener(productos, id).cantidad + d <= MaxCant
        /\ Aplicar("ajustar_cantidad", ajustar_cantidad(productos, idx_nombre, id, d))

ActualizarPrecio ==
    \E id \in Ids, f \in PreciosEntrada :
        Aplicar("actualizar_precio", actualizar_precio(productos, idx_nombre, id, f))

ActualizarNombre ==
    \E id \in Ids, n \in NombresEntrada :
        Aplicar("actualizar_nombre", actualizar_nombre(productos, idx_nombre, id, n))

CargarJson ==
    Aplicar("cargar_json", cargar_json(productos, idx_nombre, archivo))

GuardarJson ==
    /\ archivo' = guardar_json(productos)
    /\ res' = Salida("guardar_json", "", << >>)
    /\ UNCHANGED <<productos, idx_nombre, pc, vars_biblioteca>>

\* inv = Inventario(): a fresh manager
NuevoInventario ==
    /\ productos' = Inventario.productos
    /\ idx_nombre' = Inventario.idx
    /\ res' = Salida("Inventario", "", << >>)
    /\ UNCHANGED <<archivo, pc, vars_biblioteca>>

\* the rename that fails: an empty or whitespace-only name
ActualizarNombreVacio ==
    \E id \in Ids, n \in NombresVacios :
        Aplicar("actualizar_nombre", actualizar_nombre(productos, idx_nombre, id, n))

Next ==
    \/ Agregar
    \/ Eliminar
    \/ ActualizarCantidad
    \/ AjustarCantidad
    \/ ActualizarPrecio
    \/ ActualizarNombre
    \/ CargarJson

Spec == Init /\ [][Next]_vars

----------------------------------------------------------------------------
(* The manager used through agregar, eliminar and the calls of            *)
(* actualizar_nombre that succeed, from an empty Inventario.               *)

InitVacio == Init /\ archivo = NoArchivo

ActualizarNombreExitoso ==
    \E id \in Ids, n \in NombresEntrada :
        /\ actualizar_nombre(productos, idx_nombre, id, n).err = ""
        /\ Aplicar("actualizar_nombre", actualizar_nombre(productos, idx_nombre, id, n))

\* the index does not read cantidad or precio: two quantities, one price
AgregarIndice ==
    AgregarDe([nombre : NombresEntrada, cantidad : {0, MaxCant}, precio : {F(0)}])

NextIndice ==
    \/ AgregarIndice
    \/ Eliminar
    \/ ActualizarNombreExitoso

SpecIndice == InitVacio /\ [][NextIndice]_vars

----------------------------------------------------------------------------
(* The manager without its file: products of two names are added, and      *)
(* their quantities and prices updated.                                    *)

EntradasGestor ==
    { [nombre |-> <<" ", "A">>, cantidad |-> 1, precio |-> NaN],
      [nombre |-> <<"b", " ">>, cantidad |-> 0, precio |-> F(0)],
      [nombre |-> << >>, cantidad |-> 0, precio |-> F(0)],
      [nombre |-> <<" ", "A">>, cantidad |-> -1, precio |-> F(0)],
      [nombre |-> <<"b", " ">>, cantidad |-> 0, precio |-> F(-1)] }

AgregarGestor == AgregarDe(EntradasGestor)

ActualizarPrecioGestor ==
    \E id \in Ids, f \in {F(-1), F(0), NaN} :
        Aplicar("actualizar_precio", actualizar_precio(productos, idx_nombre, id, f))

NextGestor ==
    \/ AgregarGestor
    \/ Eliminar
    \/ ActualizarCantidad
    \/ AjustarCantidad
    \/ ActualizarPrecioGestor

SpecGestor == InitVacio /\ [][NextGestor]_vars

----------------------------------------------------------------------------
(* Index consistency *)

IndiceConsistente(ps, idx) ==
    /\ \A i \in 1..Len(ps) :
          /\ _norm_nombre(ps[i].nombre) \in DOMAIN idx
          /\ ps[i].id \in idx[_norm_nombre(ps[i].nombre)]
    /\ \A k \in DOMAIN idx :
          /\ idx[k] # {}
          /\ \A id \in idx[k] :
                /\ id \in IdsDe(ps)
                /\ _norm_nombre(Obtener(ps, id).nombre) = k

\* C1: after any sequence of agregar, eliminar and successful
\* actualizar_nombre calls from an empty Inventario, every stored id is in
\* the bucket of its product's normalized current name and in no other
\* bucket, no bucket holds an id that is not stored, and no bucket is empty.
C1_IndiceConsistente == IndiceConsistente(productos, idx_nombre)

\* a rename has succeeded and two products share one bucket
C1_Testigo ==
    /\ res.op = "actualizar_nombre"
    /\ res.err = ""
    /\ Len(productos) = 2
    /\ \E k \in DOMAIN idx_nombre : Cardinality(idx_nombre[k]) = 2

----------------------------------------------------------------------------
(* Failing calls *)

\* C2: a call of actualizar_nombre that raises the validation error (a
\* present id, an empty or whitespace-only name) leaves _productos and
\* _idx_nombre as they were before the call.
C2_NombreVacioSinCambio ==
    [][(res'.op = "actualizar_nombre" /\ res'.err = "ValueError")
          => (productos' = productos /\ idx_nombre' = idx_nombre)]_vars

\* the products the constructor accepts
ProductosValidos ==
    { r.val : r \in { q \in { Producto(id, n, c, f) : id \in Ids, n \in NombresEntrada,
                                c \in CantidadesEntrada, f \in PreciosEntrada } :
                         q.err = "" } }

SinCambio(r, err) == r = Resultado(productos, idx_nombre, err, << >>)

\* C3: agregar with an id already present, eliminar, actualizar_cantidad,
\* ajustar_cantidad and actualizar_precio with an absent id raise KeyError,
\* actualizar_cantidad with a negative quantity and actualizar_precio with a
\* negative price raise ValueError, and each leaves _productos (the stored
\* product included) and _idx_nombre unchanged.
C3_FallosSinCambio ==
    \A id \in Ids :
        /\ id \in IdsDe(productos) =>
              /\ \A p \in ProductosValidos :
                    p.id = id => SinCambio(agregar(productos, idx_nombre, p), "KeyError")
              /\ \A c \in CantidadesEntrada :
                    c < 0 => SinCambio(actualizar_cantidad(productos, idx_nombre, id, c),
                                       "ValueError")
              /\ \A f \in PreciosEntrada :
                    FloatLt(f, F(0)) =>
                        SinCambio(actualizar_precio(productos, idx_nombre, id, f),
                                  "ValueError")
        /\ id \notin IdsDe(productos) =>
              /\ SinCambio(eliminar(productos, idx_nombre, id), "KeyError")
              /\ \A c \in CantidadesEntrada :
                    SinCambio(actualizar_cantidad(productos, idx_nombre, id, c), "KeyError")
              /\ \A d \in DeltasEntrada :
                    SinCambio(ajustar_cantidad(productos, idx_nombre, id, d), "KeyError")
              /\ \A f \in PreciosEntrada :
                    SinCambio(actualizar_precio(productos, idx_nombre, id, f), "KeyError")

\* agregar has just failed on an id that is stored
C3_Testigo ==
    /\ res.op = "agregar"
    /\ res.err = "KeyError"
    /\ Len(productos) = 2

\* C4: for a present id, ajustar_cantidad(id, delta) raises ValueError and
\* changes nothing when cantidad + delta < 0, and otherwise succeeds and
\* sets that product's cantidad to cantidad + delta, changing no other
\* product, no other field and no bucket.
C4_AjustarCantidad ==
    \A id \in IdsDe(productos), d \in DeltasEntrada :
        LET c == Obtener(productos, id).cantidad
            r == ajustar_cantidad(productos, idx_nombre, id, d)
        IN  IF c + d < 0
            THEN SinCambio(r, "ValueError")
            ELSE /\ r.err = ""
                 /\ r.idx = idx_nombre
                 /\ Len(r.productos) = Len(productos)
                 /\ \A i \in 1..Len(productos) :
                       r.productos[i] =
                           IF productos[i].id = id
                           THEN [productos[i] EXCEPT !.cantidad = c + d]
                           ELSE productos[i]

\* an adjustment below zero has just been refused, beside another product
C4_Testigo ==
    /\ res.op = "ajustar_cantidad"
    /\ res.err = "ValueError"
    /\ Len(productos) = 2

\* C5: from any reachable state, agregar(p) with an id that is not stored
\* followed by eliminar(p.id) returns p and restores resumen(), the stored
\* products and the name index.
C5_AgregarEliminarRestaura ==
    \A id \in Ids \ IdsDe(productos), n \in NombresEntrada,
       c \in CantidadesEntrada, f \in PreciosEntrada :
        Producto(id, n, c, f).err = "" =>
            LET p == Producto(id, n, c, f).val
                a == agregar(productos, idx_nombre, p)
                e == eliminar(a.productos, a.idx, id)
            IN  /\ a.err = ""
                /\ e.err = ""
                /\ e.ret = <<p>>
                /\ e.productos = productos
                /\ resumen(e.productos) = resumen(productos)
                /\ e.idx = idx_nombre

----------------------------------------------------------------------------
(* Saving and loading: the manager is filled, saved with guardar_json, and *)
(* a fresh Inventario loads the file.  The products added are two, as      *)
(* every saved file is part of the state.                                  *)

EntradasPersistencia ==
    { [nombre |-> <<" ", "A">>, cantidad |-> 1, precio |-> NaN],
      [nombre |-> <<"b", " ">>, cantidad |-> 0, precio |-> F(0)],
      [nombre |-> << >>, cantidad |-> 0, precio |-> F(0)] }

AgregarPersistencia == AgregarDe(EntradasPersistencia)

NextPersistencia ==
    \/ AgregarPersistencia
    \/ Eliminar
    \/ ActualizarNombreVacio
    \/ GuardarJson
    \/ NuevoInventario
    \/ CargarJson

SpecPersistencia == InitVacio /\ [][NextPersistencia]_vars

\* Loading the file the program finds at start, over any manager
NextCarga ==
    \/ AgregarPersistencia
    \/ Eliminar
    \/ ActualizarNombreVacio
    \/ CargarJson

SpecCarga == Init /\ [][NextCarga]_vars

Conjunto(ps) == {ps[i] : i \in 1..Len(ps)}

\* C6: whatever the manager holds, the file guardar_json writes, loaded by
\* cargar_json into a fresh Inventario, gives the same products (id, name,
\* quantity and price of each) with a consistent name index, and
\* cargar_json returns the number of products saved.
C6_IdaYVuelta ==
    LET r == cargar_json(Inventario.productos, Inventario.idx, guardar_json(productos))
    IN  /\ r.err = ""
        /\ Conjunto(r.productos) = Conjunto(productos)
        /\ Len(r.productos) = Len(productos)
        /\ IndiceConsistente(r.productos, r.idx)
        /\ r.ret = <<Len(productos)>>

\* a saved file of two products, one priced NaN, has just been loaded
C6_Testigo ==
    /\ res.op = "cargar_json"
    /\ res.ret = <<2>>
    /\ archivo = guardar_json(productos)
    /\ \E i \in 1..Len(productos) : productos[i].precio.nan

----------------------------------------------------------------------------
(* Loading *)

IdsArchivo == {archivo.datos[i].id : i \in 1..Len(archivo.datos)}

UltimoCon(id) ==
    archivo.datos[CHOOSE i \in 1..Len(archivo.datos) :
                     /\ archivo.datos[i].id = id
                     /\ \A j \in (i + 1)..Len(archivo.datos) : archivo.datos[j].id # id]

\* C7: after cargar_json succeeds on an existing file, _productos holds one
\* product for each id of the snapshot and no other, each as the snapshot
\* describes it (the last record of its id), no bucket holds an id that is
\* not in the snapshot, and the count returned is the number of products
\* held.
C7_CargaReemplaza ==
    (res.op = "cargar_json" /\ res.err = "" /\ archivo.existe) =>
        /\ IdsDe(productos) = IdsArchivo
        /\ Cardinality(IdsDe(productos)) = Len(productos)
        /\ \A i \in 1..Len(productos) :
              productos[i] = from_dict(UltimoCon(productos[i].id)).val
        /\ \A k \in DOMAIN idx_nombre : idx_nombre[k] \subseteq IdsArchivo
        /\ res.ret = <<Len(productos)>>

\* a snapshot of two records has been loaded
C7_Testigo ==
    /\ res.op = "cargar_json"
    /\ res.err = ""
    /\ archivo.existe
    /\ Len(archivo.datos) = 2
    /\ Len(productos) = 2

\* C8: a cargar_json that raises on a malformed record leaves _productos
\* and _idx_nombre as they were before the call.
C8_CargaFallidaSinCambio ==
    [][(res'.op = "cargar_json" /\ res'.err # "")
          => (productos' = productos /\ idx_nombre' = idx_nombre)]_vars

\* C9: cargar_json on a path that does not exist raises nothing, returns 0
\* and leaves _productos and _idx_nombre unchanged.
C9_SinArchivo ==
    [][(res'.op = "cargar_json" /\ ~archivo.existe)
          => /\ res'.err = ""
             /\ res'.ret = <<0>>
             /\ productos' = productos
             /\ idx_nombre' = idx_nombre]_vars

\* a populated manager has just loaded a path that does not exist
C9_Testigo ==
    /\ res.op = "cargar_json"
    /\ ~archivo.existe
    /\ Len(productos) = 2

----------------------------------------------------------------------------
(* Product fields *)

\* C10: every stored product has a non-empty name equal to its trimmed
\* form, cantidad >= 0 and precio >= 0.
C10_CamposValidos ==
    \A i \in 1..Len(productos) :
        /\ productos[i].nombre # << >>
        /\ productos[i].nombre = strip(productos[i].nombre)
        /\ productos[i].cantidad >= 0
        /\ FloatGe(productos[i].precio, F(0))

----------------------------------------------------------------------------
(* listar: sorted(self._productos.values(), key=k).  sorted() compares the *)
(* keys with < only; on a list this short it takes the run at the head of  *)
(* the list (count_run), reversed when strictly descending, and inserts    *)
(* the other elements by binary search (binarysort).                        *)

Ordenes == {"id", "nombre", "precio", "cantidad", "otro"}

\* code points
ord(c) ==
    CASE c = " " -> 32 [] c = "A" -> 65 [] c = "B" -> 66
      [] c = "a" -> 97 [] c = "b" -> 98

\* str < str
RECURSIVE StrLt(_, _)
StrLt(s, t) ==
    IF t = << >> THEN FALSE
    ELSE IF s = << >> THEN TRUE
    ELSE IF s[1] = t[1] THEN StrLt(Tail(s), Tail(t))
    ELSE ord(s[1]) < ord(t[1])

\* k(p) < k(q) for k = key_map.get(orden, key_map["id"])
KeyLt(orden, p, q) ==
    CASE orden = "nombre" -> StrLt(_norm_nombre(p.nombre), _norm_nombre(q.nombre))
      [] orden = "precio" -> FloatLt(p.precio, q.precio)
      [] orden = "cantidad" -> p.cantidad < q.cantidad
      [] OTHER -> p.id < q.id

\* the run a[1..n] continues while a[n+1] < a[n] is desc
RECURSIVE Corrida(_, _, _, _)
Corrida(orden, a, desc, n) ==
    IF n < Len(a) /\ (KeyLt(orden, a[n + 1], a[n]) <=> desc)
    THEN Corrida(orden, a, desc, n + 1)
    ELSE n

count_run(orden, a) ==
    IF Len(a) < 2
    THEN [n |-> Len(a), desc |-> FALSE]
    ELSE LET desc == KeyLt(orden, a[2], a[1])
         IN  [n |-> Corrida(orden, a, desc, 2), desc |-> desc]

Reverso(s) == [i \in 1..Len(s) |-> s[Len(s) + 1 - i]]

\* the place of pivot in the sorted a, searched between 0-based l and r
RECURSIVE Lugar(_, _, _, _, _)
Lugar(orden, a, pivot, l, r) ==
    IF l >= r THEN l
    ELSE LET p == l + (r - l) \div 2
         IN  IF KeyLt(orden, pivot, a[p + 1])
             THEN Lugar(orden, a, pivot, l, p)
             ELSE Lugar(orden, a, pivot, p + 1, r)

RECURSIVE binarysort(_, _, _)
binarysort(orden, hechos, resto) ==
    IF resto = << >> THEN hechos
    ELSE LET l == Lugar(orden, hechos, Head(resto), 0, Len(hechos))
         IN  binarysort(orden,
                        SubSeq(hechos, 1, l) \o <<Head(resto)>>
                            \o SubSeq(hechos, l + 1, Len(hechos)),
                        Tail(resto))

sorted(orden, a) ==
    LET c == count_run(orden, a)
        run == SubSeq(a, 1, c.n)
    IN  binarysort(orden, IF c.desc THEN Reverso(run) ELSE run,
                   SubSeq(a, c.n + 1, Len(a)))

listar(ps, orden) == sorted(orden, ps)

\* inv.listar(orden): the manager is read, not changed
Listar ==
    \E orden \in Ordenes :
        /\ res' = Salida("listar", "", <<orden, listar(productos, orden)>>)
        /\ UNCHANGED <<productos, idx_nombre, archivo, pc, vars_biblioteca>>

----------------------------------------------------------------------------
(* buscar_por_nombre.  A result is [err, ret]; the exact search returns    *)
(* the products in the order the bucket is iterated, for a set of small    *)
(* ints the ascending one.                                                 *)

TextosBusqueda == {<< >>, <<" ", "A">>, <<"B">>}

\* t in s, for strings
Subcadena(t, s) ==
    \E i \in 0..(Len(s) - Len(t)) : SubSeq(s, i + 1, i + Len(t)) = t

\* the ids of the set ids, ascending
RECURSIVE Ascendente(_)
Ascendente(ids) ==
    IF ids = {} THEN << >>
    ELSE LET m == CHOOSE x \in ids : \A y \in ids : x <= y
         IN  <<m>> \o Ascendente(ids \ {m})

Filtrar(ps, t) ==
    SelectSeq(ps, LAMBDA p : Subcadena(t, casefold(p.nombre)))

buscar_por_nombre(ps, idx, texto, exacto) ==
    IF exacto
    THEN LET k == _norm_nombre(texto)
             ids == IF k \in DOMAIN idx THEN idx[k] ELSE {}
         IN  IF \E i \in ids : i \notin IdsDe(ps)
             THEN [err |-> "KeyError", ret |-> << >>]
             ELSE [err |-> "",
                   ret |-> [n \in 1..Cardinality(ids) |->
                               Obtener(ps, Ascendente(ids)[n])]]
    ELSE [err |-> "", ret |-> Filtrar(ps, casefold(strip(texto)))]

\* inv.buscar_por_nombre(texto, exacto=exacto): the manager is read, not
\* changed; res keeps the arguments with the list returned
BuscarPorNombre ==
    \E texto \in TextosBusqueda, exacto \in BOOLEAN :
        LET r == buscar_por_nombre(productos, idx_nombre, texto, exacto)
        IN  /\ res' = Salida("buscar_por_nombre", r.err, <<texto, exacto, r.ret>>)
            /\ UNCHANGED <<productos, idx_nombre, archivo, pc, vars_biblioteca>>

----------------------------------------------------------------------------
(* The queries of the manager, over what agregar, eliminar, a failed       *)
(* actualizar_nombre and cargar_json leave in it.                          *)

NextConsultas ==
    \/ AgregarPersistencia
    \/ Eliminar
    \/ ActualizarNombreVacio
    \/ CargarJson
    \/ BuscarPorNombre
    \/ Listar

SpecConsultas == Init /\ [][NextConsultas]_vars

\* the key listar sorts by, and its order
Clave(orden, p) ==
    CASE orden = "nombre" -> _norm_nombre(p.nombre)
      [] orden = "precio" -> p.precio
      [] orden = "cantidad" -> p.cantidad
      [] OTHER -> p.id

EsNaN(orden, p) == orden = "precio" /\ p.precio.nan

ClaveIgual(orden, p, q) ==
    /\ ~EsNaN(orden, p)
    /\ ~EsNaN(orden, q)
    /\ Clave(orden, p) = Clave(orden, q)

\* C11: listar(orden) returns every stored product exactly once, in
\* ascending order of the selected key (id, normalized name, price or
\* quantity; an unknown key is id), and of two products equal on the key
\* the one with the smaller id comes first, whatever the order they were
\* added in.  Stated for managers whose prices are all numbers.
C11_ListarOrdenado ==
    (res.op = "listar" /\ \A i \in 1..Len(productos) : ~productos[i].precio.nan) =>
        LET orden == res.ret[1]
            l == res.ret[2]
        IN  /\ Len(l) = Len(productos)
            /\ Conjunto(l) = Conjunto(productos)
            /\ \A i \in 1..(Len(l) - 1) :
                  KeyLt(orden, l[i], l[i + 1]) \/ ClaveIgual(orden, l[i], l[i + 1])
            /\ \A i, j \in 1..Len(l) :
                  (i < j /\ ClaveIgual(orden, l[i], l[j])) => l[i].id < l[j].id

\* C12: in every state agregar, eliminar, actualizar_nombre and cargar_json
\* lead to, their failing calls included, buscar_por_nombre(texto,
\* exacto=True) raises nothing and returns, each once, exactly the stored
\* products whose normalized name is the normalized texto: what a scan of
\* _productos finds.
C12_BusquedaExacta ==
    (res.op = "buscar_por_nombre" /\ res.ret[2]) =>
        /\ res.err = ""
        /\ Conjunto(res.ret[3]) =
              {p \in Conjunto(productos) :
                  _norm_nombre(p.nombre) = _norm_nombre(res.ret[1])}
        /\ Len(res.ret[3]) = Cardinality(Conjunto(res.ret[3]))

----------------------------------------------------------------------------
(* resumen, over managers holding the products of the example: 10 units at *)
(* 2.50 and 5 units at 4.00, with a product whose price is NaN and a       *)
(* product that Producto rejects.                                          *)

EntradasResumen ==
    { [nombre |-> <<" ", "A">>, cantidad |-> 10, precio |-> F(250)],
      [nombre |-> <<"b", " ">>, cantidad |-> 5, precio |-> F(400)],
      [nombre |-> <<"b", " ">>, cantidad |-> MaxCant, precio |-> NaN],
      [nombre |-> <<" ", "A">>, cantidad |-> -1, precio |-> F(0)] }

AgregarResumen == AgregarDe(EntradasResumen)

\* inv.resumen()
Resumen ==
    /\ res' = Salida("resumen", "", resumen(productos))
    /\ UNCHANGED <<productos, idx_nombre, archivo, pc, vars_biblioteca>>

NextResumen ==
    \/ AgregarResumen
    \/ Eliminar
    \/ ActualizarCantidad
    \/ Resumen

SpecResumen == InitVacio /\ [][NextResumen]_vars

\* the units and the value of the stored products whose ids are in ids
RECURSIVE Unidades(_)
Unidades(ids) ==
    IF ids = {} THEN 0
    ELSE LET i == CHOOSE x \in ids : TRUE
         IN  Obtener(productos, i).cantidad + Unidades(ids \ {i})

RECURSIVE Centesimas(_)
Centesimas(ids) ==
    IF ids = {} THEN 0
    ELSE LET i == CHOOSE x \in ids : TRUE
         IN  Obtener(productos, i).cantidad * Obtener(productos, i).precio.v
                 + Centesimas(ids \ {i})

Valor(ids) ==
    IF \E i \in ids : Obtener(productos, i).precio.nan
    THEN NaN
    ELSE F(Centesimas(ids))

----------------------------------------------------------------------------
(* menu(): inv = Inventario() and inv.cargar_json(INVENTARIO_JSON), then   *)
(* the loop; a step of the loop is one selection with its try, except and  *)
(* finally.  res is the selection, the exception raised inside the try and *)
(* what the step printed last; pc is "menu" at the prompt of the loop and  *)
(* "fin" once menu() has returned or raised.                               *)

\* except (ValueError, KeyError) with KeyError left out
Capturadas_sin_KeyError == {"ValueError"}

\* except (ValueError, KeyError)
Capturadas == {"ValueError", "KeyError"}

\* the load before the loop, outside the try: what it raises ends menu()
MenuInicio ==
    /\ pc = "inicio"
    /\ LET r == cargar_json(productos, idx_nombre, archivo)
       IN  /\ productos' = r.productos
           /\ idx_nombre' = r.idx
           /\ res' = Salida("menu", r.err,
                            IF r.err = "" THEN <<"cargado">> ELSE <<"Traceback">>)
           /\ pc' = IF r.err = "" THEN "menu" ELSE "fin"
    /\ UNCHANGED <<archivo, vars_biblioteca>>

\* a selection that changes the manager: r is the result of its call, and
\* inv.guardar_json(INVENTARIO_JSON) follows when the call has returned
Intentar(op, r) ==
    /\ pc = "menu"
    /\ productos' = r.productos
    /\ idx_nombre' = r.idx
    /\ archivo' = IF r.err = "" THEN guardar_json(r.productos) ELSE archivo
    /\ res' = Salida(op, r.err,
                     IF r.err = "" THEN <<"guardado">>
                     ELSE IF r.err \in Capturadas THEN <<"Error">>
                     ELSE <<"Traceback">>)
    /\ pc' = IF r.err = "" \/ r.err \in Capturadas THEN "menu" ELSE "fin"
    /\ UNCHANGED vars_biblioteca

\* a selection that reads the manager
Consultar(op, err) ==
    /\ pc = "menu"
    /\ res' = Salida(op, err,
                     IF err = "" THEN <<"impreso">>
                     ELSE IF err \in Capturadas THEN <<"Error">>
                     ELSE <<"Traceback">>)
    /\ pc' = IF err = "" \/ err \in Capturadas THEN "menu" ELSE "fin"
    /\ UNCHANGED <<productos, idx_nombre, archivo, vars_biblioteca>>

Menu1 ==
    \E id \in Ids, e \in EntradasPersistencia :
        LET p == Producto(id, e.nombre, e.cantidad, e.precio)
        IN  IF p.err # ""
            THEN Intentar("1", Resultado(productos, idx_nombre, p.err, << >>))
            ELSE Intentar("1", agregar(productos, idx_nombre, p.val))

Menu2 ==
    \E id \in Ids : Intentar("2", eliminar(productos, idx_nombre, id))

\* modo == "A"; the quantity is kept within MaxCant
Menu3A ==
    \E id \in Ids, d \in {-1, 1} :
        /\ id \in IdsDe(productos) => Obtener(productos, id).cantidad + d <= MaxCant
        /\ Intentar("3", ajustar_cantidad(productos, idx_nombre, id, d))

Menu3S ==
    \E id \in Ids, c \in {-1, 0} :
        Intentar("3", actualizar_cantidad(productos, idx_nombre, id, c))

Menu4 ==
    \E id \in Ids, f \in {F(-1), F(0)} :
        Intentar("4", actualizar_precio(productos, idx_nombre, id, f))

Menu5 ==
    \E texto \in TextosBusqueda, exacto \in BOOLEAN :
        Consultar("5", buscar_por_nombre(productos, idx_nombre, texto, exacto).err)

\* listar, exportar_csv (which writes another file), resumen, and any
\* other selection
MenuConsulta ==
    \E op \in {"6", "7", "8", "otra"} : Consultar(op, "")

Menu9 ==
    /\ pc = "menu"
    /\ archivo' = guardar_json(productos)
    /\ res' = Salida("9", "", <<"guardado">>)
    /\ pc' = "fin"
    /\ UNCHANGED <<productos, idx_nombre, vars_biblioteca>>

NextMenu ==
    \/ MenuInicio
    \/ Menu1
    \/ Menu2
    \/ Menu3A
    \/ Menu3S
    \/ Menu4
    \/ Menu5
    \/ MenuConsulta
    \/ Menu9

SpecMenu == Init /\ [][NextMenu]_vars

\* the file a holds one record for each product of ps, with its four fields
Describe(a, ps) ==
    /\ a.existe
    /\ Len(a.datos) = Len(ps)
    /\ {a.datos[i] : i \in 1..Len(a.datos)} =
          {J(ps[i].id, ps[i].nombre, ps[i].cantidad, ps[i].precio) : i \in 1..Len(ps)}

\* C14: in the loop of menu(), a selection 1 to 4 whose call succeeds
\* leaves inventario.json describing exactly the products in memory; a
\* selection whose call raises (validation, duplicate id, id not found)
\* writes nothing, prints the error and is followed by the menu again; and
\* the loop ends on selection 9 only, the file saved.
C14_MenuGuarda ==
    [][pc = "menu" =>
          /\ (res'.op \in {"1", "2", "3", "4"} /\ res'.err = "")
                => Describe(archivo', productos')
          /\ res'.err # ""
                => /\ archivo' = archivo
                   /\ res'.ret = <<"Error">>
                   /\ pc' = "menu"
          /\ pc' = "fin"
                => /\ res'.op = "9"
                   /\ Describe(archivo', productos')]_vars

\* with two products saved, adding an id again has been reported, the file
\* still describes the manager and the menu is shown
C14_Testigo ==
    /\ pc = "menu"
    /\ res.op = "1"
    /\ res.err = "KeyError"
    /\ Len(productos) = 2
    /\ Describe(archivo, productos)

----------------------------------------------------------------------------
(* Loading a snapshot whose ids repeat *)

\* C15: after cargar_json has loaded a snapshot of valid records, whose
\* ids may repeat, each id held in _productos is in exactly one bucket of
\* _idx_nombre, the bucket of the normalized name of the product stored
\* under that id, and no bucket lists an id under a name the stored product
\* does not have.
C15_CargaIndiceConsistente ==
    (res.op = "cargar_json" /\ res.err = "" /\ archivo.existe) =>
        /\ \A i \in 1..Len(productos) :
              {k \in DOMAIN idx_nombre : productos[i].id \in idx_nombre[k]}
                  = {_norm_nombre(productos[i].nombre)}
        /\ \A k \in DOMAIN idx_nombre :
              \A id \in idx_nombre[k] :
                  /\ id \in IdsDe(productos)
                  /\ _norm_nombre(Obtener(productos, id).nombre) = k

----------------------------------------------------------------------------
(* src/biblioteca.txt.py.  A dict is a function; b is the record of the    *)
(* five fields of a Biblioteca, and the result of a method is [b, err].    *)

Libro(titulo, autor, categoria, isbn) ==
    [titulo_autor |-> <<titulo, autor>>, categoria |-> categoria, isbn |-> isbn]

Usuario(nombre, id_usuario) ==
    [nombre |-> nombre, id_usuario |-> id_usuario, libros_prestados |-> << >>]

\* d[k] = v and d.pop(k, None)
Asignar(d, k, v) == [x \in DOMAIN d \cup {k} |-> IF x = k THEN v ELSE d[x]]
Pop(d, k) == [x \in DOMAIN d \ {k} |-> d[x]]

Contiene(lista, x) == \E i \in 1..Len(lista) : lista[i] = x

tomar_prestado(u, isbn) ==
    IF ~Contiene(u.libros_prestados, isbn)
    THEN [u EXCEPT !.libros_prestados = Append(@, isbn)]
    ELSE u

devolver(u, isbn) ==
    IF Contiene(u.libros_prestados, isbn)
    THEN [u EXCEPT !.libros_prestados = SelectSeq(@, LAMBDA x : x # isbn)]
    ELSE u

Hecho(b) == [b |-> b, err |-> ""]
Lanza(b, e) == [b |-> b, err |-> e]

\* añadir_libro
anadir_libro(b, libro) ==
    IF libro.isbn \notin DOMAIN b.catalogo
    THEN Hecho([b EXCEPT !.catalogo = Asignar(@, libro.isbn, libro),
                         !.libros_disponibles = Asignar(@, libro.isbn, libro)])
    ELSE Hecho(b)

quitar_libro(b, isbn) ==
    IF isbn \in DOMAIN b.prestamos
    THEN Lanza(b, "ValueError")
    ELSE Hecho([b EXCEPT !.catalogo = Pop(@, isbn),
                         !.libros_disponibles = Pop(@, isbn)])

registrar_usuario(b, nombre, id_usuario) ==
    IF id_usuario \in b.ids_usuarios
    THEN Lanza(b, "ValueError")
    ELSE Hecho([b EXCEPT !.usuarios = Asignar(@, id_usuario, Usuario(nombre, id_usuario)),
                         !.ids_usuarios = @ \cup {id_usuario}])

dar_baja_usuario(b, id_usuario) ==
    IF id_usuario \notin DOMAIN b.usuarios
    THEN Lanza(b, "KeyError")
    ELSE IF b.usuarios[id_usuario].libros_prestados # << >>
    THEN Lanza(b, "ValueError")
    ELSE LET b1 == [b EXCEPT !.usuarios = Pop(@, id_usuario)]
         IN  IF id_usuario \notin b.ids_usuarios
             THEN Lanza(b1, "KeyError")
             ELSE Hecho([b1 EXCEPT !.ids_usuarios = @ \ {id_usuario}])

\* self.prestamos[isbn] = id_usuario comes before self.usuarios[id_usuario]
prestar_libro(b, isbn, id_usuario) ==
    IF isbn \notin DOMAIN b.libros_disponibles
    THEN Lanza(b, "ValueError")
    ELSE LET b1 == [b EXCEPT !.prestamos = Asignar(@, isbn, id_usuario)]
         IN  IF id_usuario \notin DOMAIN b.usuarios
             THEN Lanza(b1, "KeyError")
             ELSE Hecho([b1 EXCEPT
                           !.usuarios[id_usuario] = tomar_prestado(@, isbn),
                           !.libros_disponibles = Pop(@, isbn)])

devolver_libro(b, isbn, id_usuario) ==
    IF isbn \notin DOMAIN b.prestamos \/ b.prestamos[isbn] # id_usuario
    THEN Lanza(b, "ValueError")
    ELSE IF id_usuario \notin DOMAIN b.usuarios
    THEN Lanza(b, "KeyError")
    ELSE LET b1 == [b EXCEPT !.usuarios[id_usuario] = devolver(@, isbn)]
         IN  IF isbn \notin DOMAIN b.catalogo
             THEN Lanza(b1, "KeyError")
             ELSE Hecho([b1 EXCEPT
                           !.libros_disponibles = Asignar(@, isbn, b.catalogo[isbn]),
                           !.prestamos = Pop(@, isbn)])

\* the Biblioteca b of the state
EstaBiblioteca ==
    [catalogo |-> catalogo, libros_disponibles |-> libros_disponibles,
     usuarios |-> usuarios, ids_usuarios |-> ids_usuarios, prestamos |-> prestamos]

AplicarBiblioteca(op, r) ==
    /\ catalogo' = r.b.catalogo
    /\ libros_disponibles' = r.b.libros_disponibles
    /\ usuarios' = r.b.usuarios
    /\ ids_usuarios' = r.b.ids_usuarios
    /\ prestamos' = r.b.prestamos
    /\ res' = Salida(op, r.err, << >>)
    /\ UNCHANGED <<productos, idx_nombre, archivo, pc>>

AnadirLibro ==
    \E isbn \in Isbns :
        AplicarBiblioteca("anadir_libro",
                          anadir_libro(EstaBiblioteca, Libro("t", "a", "c", isbn)))

QuitarLibro ==
    \E isbn \in Isbns :
        AplicarBiblioteca("quitar_libro", quitar_libro(EstaBiblioteca, isbn))

RegistrarUsuario ==
    \E id \in IdsUsuario :
        AplicarBiblioteca("registrar_usuario", registrar_usuario(EstaBiblioteca, "n", id))

DarBajaUsuario ==
    \E id \in IdsUsuario :
        AplicarBiblioteca("dar_baja_usuario", dar_baja_usuario(EstaBiblioteca, id))

PrestarLibro ==
    \E isbn \in Isbns, id \in IdsUsuario :
        AplicarBiblioteca("prestar_libro", prestar_libro(EstaBiblioteca, isbn, id))

DevolverLibro ==
    \E isbn \in Isbns, id \in IdsUsuario :
        AplicarBiblioteca("devolver_libro", devolver_libro(EstaBiblioteca, isbn, id))

NextBiblioteca ==
    \/ AnadirLibro
    \/ QuitarLibro
    \/ RegistrarUsuario
    \/ DarBajaUsuario
    \/ PrestarLibro
    \/ DevolverLibro

SpecBiblioteca == InitVacio /\ [][NextBiblioteca]_vars

\* C16: whatever calls of añadir_libro, quitar_libro, registrar_usuario,
\* dar_baja_usuario, prestar_libro and devolver_libro have been made, the
\* raising ones included, every isbn of catalogo is in exactly one of
\* libros_disponibles and prestamos, and prestamos[isbn] = u exactly when
\* u is a registered user whose libros_prestados holds isbn.
C16_PrestamosConsistentes ==
    /\ \A isbn \in DOMAIN catalogo :
          (isbn \in DOMAIN libros_disponibles) # (isbn \in DOMAIN prestamos)
    /\ \A isbn \in Isbns, u \in IdsUsuario :
          (isbn \in DOMAIN prestamos /\ prestamos[isbn] = u)
              <=> /\ u \in ids_usuarios
                  /\ u \in DOMAIN usuarios
                  /\ Contiene(usuarios[u].libros_prestados, isbn)

====
